---- MODULE Spec2Model ----
(***************************************************************************)
(* Model of bot.py: the content store (content_store.json), the identifier *)
(* generator and validator, and the two handlers that ingest a message     *)
(* and resolve a deep link.                                                *)
(*                                                                         *)
(* A string is a sequence of one-character strings.  The store file and    *)
(* its backup are modelled by what is on disk at each instant; a handler   *)
(* advances one file-system call at a time.                                *)
(***************************************************************************)
EXTENDS Integers, Sequences, FiniteSets, TLC

\* ------------------------------------------------------------------ bounds
\* Number of message events delivered to handle_private_group_message.
MaxMsgs == 2
\* Largest value of the wall clock read by datetime.now().
MaxClock == 1

\* The worker slots in which handlers run.
Workers == {1, 2}

\* --------------------------------------------------------------- constants
\* secrets.token_urlsafe(8): number of random bytes.
TokenBytes == 8
\* {8,} in the validator's pattern.
MinIdLen == 8
\* int(os.getenv('PRIVATE_CHANNEL_ID', 0)): the default when the variable is unset.
PRIVATE_CHANNEL_ID == 0
\* The groups message events arrive from (the monitored one and another the
\* bot was added to), and the chat a /start command is sent from.
GroupChats == {PRIVATE_CHANNEL_ID, -1001}
\* The chats a /start command arrives from: << chat type, chat id >>.
CommandChats == { << "private", 55 >>, << "group", -1001 >>,
                  << "supergroup", PRIVATE_CHANNEL_ID >>, << "channel", -1002 >> }

\* --------------------------------------------------------- pure functions
\* The URL-safe base64 alphabet, index 0..63 at position 1..64.
Alphabet ==
  << "A","B","C","D","E","F","G","H","I","J","K","L","M","N","O","P",
     "Q","R","S","T","U","V","W","X","Y","Z","a","b","c","d","e","f",
     "g","h","i","j","k","l","m","n","o","p","q","r","s","t","u","v",
     "w","x","y","z","0","1","2","3","4","5","6","7","8","9","-","_" >>

Sextet(n) == Alphabet[(n % 64) + 1]

\* base64.urlsafe_b64encode(bytes).rstrip(b'='): three bytes give four
\* characters, a tail of two bytes three, a tail of one byte two.
RECURSIVE B64Url(_)
B64Url(bytes) ==
  IF Len(bytes) = 0 THEN << >>
  ELSE IF Len(bytes) = 1 THEN
    LET n == bytes[1] * 16
    IN << Sextet(n \div 64), Sextet(n) >>
  ELSE IF Len(bytes) = 2 THEN
    LET n == (bytes[1] * 256 + bytes[2]) * 4
    IN << Sextet(n \div 4096), Sextet(n \div 64), Sextet(n) >>
  ELSE
    LET n == bytes[1] * 65536 + bytes[2] * 256 + bytes[3]
    IN << Sextet(n \div 262144), Sextet(n \div 4096), Sextet(n \div 64), Sextet(n) >>
       \o B64Url(SubSeq(bytes, 4, Len(bytes)))

\* generate_unique_id, as a function of the bytes the random source returned.
generate_unique_id(bytes) == B64Url(bytes)

\* The byte strings the random source is sampled at: eight equal bytes.
RandomByteValues == {0, 251, 255}
RandomTokens == { [i \in 1..TokenBytes |-> b] : b \in RandomByteValues }
GenIds == { generate_unique_id(t) : t \in RandomTokens }

\* The character class [A-Za-z0-9_-] of the validator's pattern.
UpperCase == {"A","B","C","D","E","F","G","H","I","J","K","L","M",
              "N","O","P","Q","R","S","T","U","V","W","X","Y","Z"}
LowerCase == {"a","b","c","d","e","f","g","h","i","j","k","l","m",
              "n","o","p","q","r","s","t","u","v","w","x","y","z"}
Digits == {"0","1","2","3","4","5","6","7","8","9"}
IdClass == UpperCase \cup LowerCase \cup Digits \cup {"_", "-"}

\* [A-Za-z0-9_-]{8,} matched against the whole of s.
MatchesClassRun(s) ==
  /\ Len(s) >= MinIdLen
  /\ \A i \in 1..Len(s) : s[i] \in IdClass

\* The pattern with "_" left out of the class.
IsValidNoUnderscore(s) ==
  /\ Len(s) >= MinIdLen
  /\ \A i \in 1..Len(s) : s[i] \in (IdClass \ {"_"})

\* re.match(r'^[A-Za-z0-9_-]{8,}$', s): in Python "$" matches at the end of
\* the string and also just before a newline that ends the string.
is_valid_content_id(s) ==
  \/ MatchesClassRun(s)
  \/ /\ Len(s) >= 1
     /\ s[Len(s)] = "\n"
     /\ MatchesClassRun(SubSeq(s, 1, Len(s) - 1))

\* The grammar of the specification: only class characters, at least 8.
WellFormed(s) == MatchesClassRun(s)

Rep(c, n) == [i \in 1..n |-> c]

\* The raw identifiers a /start command is tried with.
RawIds ==
  GenIds \cup
  { Rep("A", MinIdLen - 1),                \* too short
    Rep("A", MinIdLen),                    \* well formed, never generated
    Rep("A", MinIdLen - 1) \o << "!" >>,   \* a character outside the class
    Rep("A", MinIdLen) \o << "\n" >> }     \* a newline after a valid run

\* ------------------------------------------------------------ the medium
\* What a path holds: nothing, a JSON document (the mapping in data), a
\* zero-length file, a prefix of the dump of data, text that is no JSON, or
\* bytes that do not decode in the encoding open() reads with.
EmptyMap == [k \in {} |-> 0]
Missing == [kind |-> "missing", data |-> EmptyMap]
Json(m) == [kind |-> "json", data |-> m]
Truncated == [kind |-> "empty", data |-> EmptyMap]
Partial(m) == [kind |-> "partial", data |-> m]
Junk == [kind |-> "junk", data |-> EmptyMap]
BadEncoding == [kind |-> "badenc", data |-> EmptyMap]

\* with open(filepath, 'r') as f: json.load(f) -- what it raises, or "ok".
Load(f) ==
  CASE f.kind = "json" -> "ok"
    [] f.kind = "missing" -> "FileNotFoundError"
    [] f.kind = "badenc" -> "UnicodeDecodeError"
    [] OTHER -> "JSONDecodeError"

Parsable(f) == f.kind = "json"

\* The record with its two locator fields swapped.
NewRecordSwapped(chat_id, message_id, now) ==
  [chat_id |-> message_id, message_id |-> chat_id, created_at |-> now]

\* data[content_id] = {'chat_id': ..., 'message_id': ..., 'created_at': now}
NewRecord(chat_id, message_id, now) ==
  [chat_id |-> chat_id, message_id |-> message_id, created_at |-> now]

\* A put that starts from an empty mapping: data = {content_id: rec}.
PutAlone(data, content_id, rec) == [k \in {content_id} |-> rec]

\* data[content_id] = rec on the mapping json.load returned.
Put(data, content_id, rec) ==
  [k \in DOMAIN data \cup {content_id} |-> IF k = content_id THEN rec ELSE data[k]]

\* A lookup that answers an absent key with a default record.
GetOrDefault(f, content_id) ==
  CASE Load(f) = "ok" /\ content_id \in DOMAIN f.data ->
         [exc |-> "none", rec |-> << f.data[content_id] >>]
    [] Load(f) = "ok" ->
         [exc |-> "none", rec |-> << NewRecord(0, 0, 0) >>]
    [] Load(f) = "FileNotFoundError" -> [exc |-> "StorageError", rec |-> << >>]
    [] Load(f) = "JSONDecodeError" -> [exc |-> "StorageError", rec |-> << >>]
    [] OTHER -> [exc |-> Load(f), rec |-> << >>]

\* get_content on the file f: the exception raised and the value returned
\* (a sequence holding the record, empty when it raises).
get_content(f, content_id) ==
  CASE Load(f) = "ok" /\ content_id \in DOMAIN f.data ->
         [exc |-> "none", rec |-> << f.data[content_id] >>]
    [] Load(f) = "ok" ->
         [exc |-> "ContentNotFoundError", rec |-> << >>]
    [] Load(f) = "FileNotFoundError" -> [exc |-> "StorageError", rec |-> << >>]
    [] Load(f) = "JSONDecodeError" -> [exc |-> "StorageError", rec |-> << >>]
    [] OTHER -> [exc |-> Load(f), rec |-> << >>]

\* What save_content and get_content turn a failed read into.
save_exc(r) ==
  IF r \in {"FileNotFoundError", "IOError", "JSONDecodeError"} THEN "StorageError" ELSE r

\* ------------------------------------------------------------------ state
VARIABLES
  file,     \* content_store.json
  backup,   \* content_store.json.backup
  clock,    \* datetime.now()
  msgSeq,   \* message events delivered so far; the next message id is msgSeq + 1
  w,        \* per worker: the handler it runs, its position and its locals
  parallel, \* whether handlers of several workers interleave (fixed at start)
  issued,   \* history: the records save_content returned normally for
  fresh     \* history: the last such record while nothing else wrote the file

vars == << file, backup, clock, msgSeq, w, parallel, issued, fresh >>

Idle ==
  [ op |-> "none", pc |-> "idle", chat_type |-> "none", chat_id |-> 0,
    message_id |-> 0, args |-> << >>, content_id |-> << >>, data |-> EmptyMap,
    rec |-> << >>, copy |-> << >>, exc |-> "none", reply |-> "none",
    touched |-> FALSE, opened |-> "none", found |-> Missing ]

Init ==
  /\ file = Missing
  /\ backup = Missing
  /\ clock = 0
  /\ msgSeq = 0
  /\ w = [p \in Workers |-> Idle]
  /\ parallel = FALSE
  /\ issued = {}
  /\ fresh = << >>

\* ------------------------------------------------------ handler plumbing
\* Whether worker p may take a step.  One event loop runs one handler at a
\* time: the handlers hold no await around their store accesses, and updates
\* are processed in sequence.  Workers in parallel (several processes on the
\* same directory) interleave at every file-system call.
Turn(p) == parallel \/ \A q \in Workers \ {p} : w[q].pc = "idle"

\* An except clause that replies with the link all the same.
MessageErrorReplyLink(e) == "link"

\* except StorageError / except Exception of handle_private_group_message.
MessageErrorReply(e) == IF e = "StorageError" THEN "save_failed" ELSE "error"

\* The except clauses of handle_start_command.
StartErrorReply(e) ==
  CASE e = "ContentNotFoundError" -> "not_found"
    [] e = "Forbidden" -> "inaccessible"
    [] e = "BadRequest" -> "unable"
    [] OTHER -> "error"

\* An exception e raised in the body of the handler worker record wp runs.
Raise(wp, e) ==
  [wp EXCEPT !.pc = "done", !.exc = e,
             !.reply = IF wp.op = "message" THEN MessageErrorReply(e)
                       ELSE StartErrorReply(e)]

\* Where a handler goes on once ContentStore() is constructed.
AfterCtor(op) == IF op = "message" THEN "save_read" ELSE "get"

\* ------------------------------------------ handle_private_group_message
\* The handler without its chat filter: every message gets an id.
StartMessageAnyChat(p, chat) ==
  /\ Turn(p)
  /\ w[p].pc = "idle"
  /\ msgSeq < MaxMsgs
  /\ msgSeq' = msgSeq + 1
  /\ \E t \in RandomTokens :
       w' = [w EXCEPT ![p] = [Idle EXCEPT !.op = "message", !.chat_type = "supergroup",
                                          !.chat_id = chat, !.message_id = msgSeq + 1,
                                          !.pc = "ctor",
                                          !.content_id = generate_unique_id(t)]]
  /\ UNCHANGED << file, backup, clock, issued, fresh, parallel >>

\* A message event from a group: the chat filter and generate_unique_id.
StartMessage(p, chat) ==
  /\ Turn(p)
  /\ w[p].pc = "idle"
  /\ msgSeq < MaxMsgs
  /\ msgSeq' = msgSeq + 1
  /\ LET ev == [Idle EXCEPT !.op = "message", !.chat_type = "supergroup",
                            !.chat_id = chat, !.message_id = msgSeq + 1]
     IN IF chat # PRIVATE_CHANNEL_ID
        THEN w' = [w EXCEPT ![p] = [ev EXCEPT !.pc = "done"]]
        ELSE \E t \in RandomTokens :
               w' = [w EXCEPT ![p] = [ev EXCEPT !.pc = "ctor",
                                               !.content_id = generate_unique_id(t)]]
  /\ UNCHANGED << file, backup, clock, issued, fresh, parallel >>

\* ----------------------------------------------------------- ContentStore
\* _ensure_file_exists without its try: the file is created anew whatever
\* is there.
CtorAlwaysCreate(p) ==
  /\ Turn(p)
  /\ w[p].pc = "ctor"
  /\ w' = [w EXCEPT ![p].pc = "ctor_open", ![p].touched = TRUE,
                    ![p].opened = Load(file)]
  /\ UNCHANGED << file, backup, clock, msgSeq, issued, fresh, parallel >>

\* ContentStore(): _ensure_file_exists opens and parses the file.
Ctor(p) ==
  /\ Turn(p)
  /\ w[p].pc = "ctor"
  /\ LET r == Load(file)
         wp == [w[p] EXCEPT !.touched = TRUE, !.opened = r,
                            !.found = IF r = "ok" THEN Missing ELSE file]
     IN w' = [w EXCEPT ![p] =
                CASE r = "ok" -> [wp EXCEPT !.pc = AfterCtor(wp.op)]
                  [] r = "FileNotFoundError" -> [wp EXCEPT !.pc = "ctor_open"]
                  [] r = "JSONDecodeError" -> [wp EXCEPT !.pc = "ctor_backup"]
                  [] OTHER -> Raise(wp, r)]
  /\ UNCHANGED << file, backup, clock, msgSeq, issued, fresh, parallel >>

\* except json.JSONDecodeError: shutil.copy(filepath, filepath + '.backup').
CtorBackup(p) ==
  /\ Turn(p)
  /\ w[p].pc = "ctor_backup"
  /\ IF file.kind = "missing"
     THEN /\ w' = [w EXCEPT ![p] = Raise(w[p], "FileNotFoundError")]
          /\ backup' = backup
     ELSE /\ w' = [w EXCEPT ![p].pc = "ctor_open"]
          /\ backup' = file
  /\ UNCHANGED << file, clock, msgSeq, issued, fresh, parallel >>

\* open(filepath, 'w') in either except clause: creates or truncates.
CtorOpen(p) ==
  /\ Turn(p)
  /\ w[p].pc = "ctor_open"
  /\ file' = Truncated
  /\ fresh' = << >>
  /\ w' = [w EXCEPT ![p].pc = "ctor_dump"]
  /\ UNCHANGED << backup, clock, msgSeq, issued, parallel >>

\* The with block ends without the json.dump: the file stays zero-length.
CtorDumpNothing(p) ==
  /\ Turn(p)
  /\ w[p].pc = "ctor_dump"
  /\ w' = [w EXCEPT ![p].pc = AfterCtor(w[p].op)]
  /\ UNCHANGED << file, backup, clock, msgSeq, issued, fresh, parallel >>

\* json.dump({}, f) and the close that ends the with block.
CtorDump(p) ==
  /\ Turn(p)
  /\ w[p].pc = "ctor_dump"
  /\ file' = Json(EmptyMap)
  /\ fresh' = << >>
  /\ w' = [w EXCEPT ![p].pc = AfterCtor(w[p].op)]
  /\ UNCHANGED << backup, clock, msgSeq, issued, parallel >>

\* save_content: read the mapping and set data[content_id].
SaveRead(p) ==
  /\ Turn(p)
  /\ w[p].pc = "save_read"
  /\ LET r == Load(file)
     IN w' = [w EXCEPT ![p] =
                IF r = "ok"
                THEN [w[p] EXCEPT !.pc = "save_open",
                                  !.data = Put(file.data, w[p].content_id,
                                               NewRecord(w[p].chat_id, w[p].message_id, clock))]
                ELSE Raise(w[p], save_exc(r))]
  /\ UNCHANGED << file, backup, clock, msgSeq, issued, fresh, parallel >>

\* save_content: open(filepath, 'w') truncates the file in place.
SaveOpen(p) ==
  /\ Turn(p)
  /\ w[p].pc = "save_open"
  /\ file' = Truncated
  /\ fresh' = << >>
  /\ w' = [w EXCEPT ![p].pc = "save_dump"]
  /\ UNCHANGED << backup, clock, msgSeq, issued, parallel >>

\* json.dump(data, f, indent=2) under way: the buffer was flushed once, the
\* file holds a prefix of the document.
SaveFlush(p) ==
  /\ Turn(p)
  /\ w[p].pc = "save_dump"
  /\ file # Partial(w[p].data)
  /\ file' = Partial(w[p].data)
  /\ fresh' = << >>
  /\ UNCHANGED << backup, clock, msgSeq, w, issued, parallel >>

\* json.dump(data, f, indent=2) done and the file closed: save_content returns.
SaveDump(p) ==
  /\ Turn(p)
  /\ w[p].pc = "save_dump"
  /\ file' = Json(w[p].data)
  /\ LET r == [id |-> w[p].content_id, chat_id |-> w[p].chat_id,
               message_id |-> w[p].message_id,
               created_at |-> w[p].data[w[p].content_id].created_at]
     IN /\ issued' = issued \cup {r}
        /\ fresh' = << r >>
  /\ w' = [w EXCEPT ![p].pc = "reply_link"]
  /\ UNCHANGED << backup, clock, msgSeq, parallel >>

\* reply_text with the deep link that holds content_id.
ReplyLink(p) ==
  /\ Turn(p)
  /\ w[p].pc = "reply_link"
  /\ w' = [w EXCEPT ![p].pc = "done", ![p].reply = "link"]
  /\ UNCHANGED << file, backup, clock, msgSeq, issued, fresh, parallel >>

\* --------------------------------------------------- handle_start_command
\* A /start command: the chat type, the argument and its validation.
StartCommand(p, chat, args) ==
  /\ Turn(p)
  /\ w[p].pc = "idle"
  /\ LET ev == [Idle EXCEPT !.op = "start", !.chat_type = chat[1],
                            !.chat_id = chat[2], !.args = args]
     IN w' = [w EXCEPT ![p] =
                CASE chat[1] \in {"group", "supergroup"} ->
                       [ev EXCEPT !.pc = "done", !.reply = "mention"]
                  [] chat[1] = "channel" ->
                       [ev EXCEPT !.pc = "done", !.reply = "channel_info"]
                  [] args = << >> ->
                       [ev EXCEPT !.pc = "done", !.reply = "welcome"]
                  [] ~ is_valid_content_id(args[1]) ->
                       [ev EXCEPT !.pc = "done", !.reply = "invalid_format"]
                  [] OTHER ->
                       [ev EXCEPT !.pc = "ctor", !.content_id = args[1]]]
  /\ UNCHANGED << file, backup, clock, msgSeq, issued, fresh, parallel >>

\* store.get_content(content_id).
GetContent(p) ==
  /\ Turn(p)
  /\ w[p].pc = "get"
  /\ LET g == get_content(file, w[p].content_id)
     IN w' = [w EXCEPT ![p] =
                IF g.exc = "none"
                THEN [w[p] EXCEPT !.pc = "copy", !.rec = g.rec]
                ELSE Raise(w[p], g.exc)]
  /\ UNCHANGED << file, backup, clock, msgSeq, issued, fresh, parallel >>

\* copy_message with chat_id and from_chat_id exchanged: the copy is taken
\* from the requesting chat and sent to the stored one.
CopyMessageToSource(p) ==
  /\ Turn(p)
  /\ w[p].pc = "copy"
  /\ \E out \in {"ok", "Forbidden", "BadRequest"} :
       w' = [w EXCEPT ![p] =
               IF out = "ok"
               THEN [w[p] EXCEPT !.pc = "done", !.reply = "copied",
                                 !.copy = << [chat_id |-> w[p].rec[1].chat_id,
                                              from_chat_id |-> w[p].chat_id,
                                              message_id |-> w[p].rec[1].message_id] >>]
               ELSE Raise(w[p], out)]
  /\ UNCHANGED << file, backup, clock, msgSeq, issued, fresh, parallel >>

\* context.bot.copy_message(...): the platform accepts or refuses the copy.
CopyMessage(p) ==
  /\ Turn(p)
  /\ w[p].pc = "copy"
  /\ \E out \in {"ok", "Forbidden", "BadRequest"} :
       w' = [w EXCEPT ![p] =
               IF out = "ok"
               THEN [w[p] EXCEPT !.pc = "done", !.reply = "copied",
                                 !.copy = << [chat_id |-> w[p].chat_id,
                                              from_chat_id |-> w[p].rec[1].chat_id,
                                              message_id |-> w[p].rec[1].message_id] >>]
               ELSE Raise(w[p], out)]
  /\ UNCHANGED << file, backup, clock, msgSeq, issued, fresh, parallel >>

\* The handler coroutine ends.
Return(p) ==
  /\ Turn(p)
  /\ w[p].pc = "done"
  /\ w' = [w EXCEPT ![p] = Idle]
  /\ UNCHANGED << file, backup, clock, msgSeq, issued, fresh, parallel >>

\* ------------------------------------------------------------ environment
\* Time passes.
Tick ==
  /\ clock < MaxClock
  /\ clock' = clock + 1
  /\ UNCHANGED << file, backup, msgSeq, w, issued, fresh, parallel >>

\* The process is killed and started again: every handler in flight is
\* gone, the files stay as they are.
Crash ==
  /\ \E p \in Workers : w[p].pc # "idle"
  /\ w' = [p \in Workers |-> Idle]
  /\ UNCHANGED << file, backup, clock, msgSeq, issued, fresh, parallel >>

\* Someone replaces the store file with content that is no JSON document.
EnvReplace(content) ==
  /\ file # content
  /\ file' = content
  /\ fresh' = << >>
  /\ UNCHANGED << backup, clock, msgSeq, w, issued, parallel >>

\* The same while no handler is running.
ReplaceBetween(content) ==
  /\ \A p \in Workers : w[p].pc = "idle"
  /\ EnvReplace(content)

\* Someone deletes the store file.
EnvDelete ==
  /\ file.kind # "missing"
  /\ file' = Missing
  /\ fresh' = << >>
  /\ UNCHANGED << backup, clock, msgSeq, w, issued, parallel >>

\* save_content: open(filepath, 'w') raises an IOError, the file is untouched.
SaveOpenFail(p) ==
  /\ Turn(p)
  /\ w[p].pc = "save_open"
  /\ w' = [w EXCEPT ![p] = Raise(w[p], save_exc("IOError"))]
  /\ UNCHANGED << file, backup, clock, msgSeq, issued, fresh, parallel >>

\* save_content: a write of the dump raises an IOError (the disk is full);
\* the file keeps what reached it.
SaveDumpFail(p) ==
  /\ Turn(p)
  /\ w[p].pc = "save_dump"
  /\ w' = [w EXCEPT ![p] = Raise(w[p], save_exc("IOError"))]
  /\ UNCHANGED << file, backup, clock, msgSeq, issued, fresh, parallel >>

\* ---------------------------------------------------------- specifications
\* The /start commands tried: every argument list from a private chat, and
\* from the other chats no argument or one well-formed argument.
Commands ==
  { << c, a >> : c \in {ch \in CommandChats : ch[1] = "private"},
                a \in {<< >>} \cup { << r >> : r \in RawIds } }
  \cup
  { << c, a >> : c \in {ch \in CommandChats : ch[1] # "private"},
                a \in {<< >>, << Rep("A", MinIdLen) >>} }

\* The /start commands tried where the store is under contention: deep links
\* that hold a generated identifier, sent from a private chat.
DeepLinks ==
  { << c, << r >> >> : c \in {ch \in CommandChats : ch[1] = "private"}, r \in GenIds }

Begin(p) ==
  \/ \E chat \in GroupChats : StartMessage(p, chat)
  \/ \E c \in Commands : StartCommand(p, c[1], c[2])

BeginLinks(p) ==
  \/ \E chat \in GroupChats : StartMessage(p, chat)
  \/ \E c \in DeepLinks : StartCommand(p, c[1], c[2])

Step(p) ==
  \/ Ctor(p) \/ CtorBackup(p) \/ CtorOpen(p) \/ CtorDump(p)
  \/ SaveRead(p) \/ SaveOpen(p) \/ SaveFlush(p) \/ SaveDump(p) \/ ReplyLink(p)
  \/ GetContent(p) \/ CopyMessage(p) \/ Return(p)

Next ==
  \/ \E p \in Workers : Begin(p) \/ Step(p)
  \/ Tick
  \/ Crash

Spec == Init /\ [][Next]_vars

\* One event loop, with the store file tampered with from outside at any
\* moment and writes that fail.  The clock is left alone.
NextEnv ==
  \/ \E p \in Workers : BeginLinks(p) \/ Step(p) \/ SaveOpenFail(p) \/ SaveDumpFail(p)
  \/ Crash
  \/ \E content \in {Junk, BadEncoding} : EnvReplace(content)
  \/ EnvDelete

SpecEnv == Init /\ [][NextEnv]_vars

\* One event loop, with the store file replaced from outside between two
\* requests.  The clock is left alone.
NextReplaced ==
  \/ \E p \in Workers : BeginLinks(p) \/ Step(p)
  \/ Crash
  \/ \E content \in {Junk, BadEncoding} : ReplaceBetween(content)

SpecReplaced == Init /\ [][NextReplaced]_vars

\* Workers in parallel, nothing else touching the files, the clock left alone.
InitConc ==
  /\ file = Missing
  /\ backup = Missing
  /\ clock = 0
  /\ msgSeq = 0
  /\ w = [p \in Workers |-> Idle]
  /\ parallel = TRUE
  /\ issued = {}
  /\ fresh = << >>

NextConc ==
  \E p \in Workers : BeginLinks(p) \/ Step(p)

SpecConc == InitConc /\ [][NextConc]_vars

\* ------------------------------------------------------------------ claims
Range(f) == { f[i] : i \in DOMAIN f }
IssuedIds == { r.id : r \in issued }
\* The record of worker p's own message is what the file holds under its id.
Holds(p) ==
  /\ Parsable(file)
  /\ w[p].content_id \in DOMAIN file.data
  /\ file.data[w[p].content_id].chat_id = w[p].chat_id
  /\ file.data[w[p].content_id].message_id = w[p].message_id
\* The raw identifiers the second testable property speaks of.
Malformed(s) == Len(s) < MinIdLen \/ \E i \in 1..Len(s) : s[i] \notin IdClass

\* C1: round trip.  When save_content has returned for (chat_id, message_id)
\* under id X and the next thing to touch the store is a /start X, the
\* record get_content returns carries exactly that chat_id and message_id.
C1_RoundTrip ==
  \A p \in Workers :
    ( /\ w[p].op = "start"
      /\ w[p].pc \in {"copy", "done"}
      /\ fresh # << >>
      /\ w[p].content_id = fresh[1].id )
    => ( /\ w[p].rec # << >>
         /\ w[p].rec[1].chat_id = fresh[1].chat_id
         /\ w[p].rec[1].message_id = fresh[1].message_id )

C1_Witness ==
  \E p \in Workers :
    /\ w[p].op = "start"
    /\ w[p].pc = "done"
    /\ w[p].reply = "copied"
    /\ fresh # << >>
    /\ w[p].content_id = fresh[1].id
    /\ w[p].rec[1].message_id = fresh[1].message_id

C3_MalformedNeverTouchesStore ==
  \A p \in Workers :
    ( /\ w[p].op = "start"
      /\ w[p].chat_type = "private"
      /\ w[p].args # << >>
      /\ Malformed(w[p].args[1]) )
    => ( /\ w[p].pc = "done"
         /\ w[p].reply = "invalid_format"
         /\ ~ w[p].touched )

\* C4: while a save_content is between its read and its return, the store
\* file parses as a complete mapping.
C4_NeverHalfWritten ==
  \A p \in Workers :
    w[p].pc \in {"save_open", "save_dump"} => Parsable(file)

\* C5: once save_content returned for a record, then whenever no handler is
\* running the file still holds that record under its id, with the same
\* chat_id, message_id and created_at.
C5_NeverUpdatedOrDeleted ==
  (\A p \in Workers : w[p].pc = "idle")
  => \A r \in issued :
       /\ Parsable(file)
       /\ r.id \in DOMAIN file.data
       /\ file.data[r.id] = NewRecord(r.chat_id, r.message_id, r.created_at)

\* C6: a /start in a private chat with a well-formed argument that no
\* save_content ever returned for ends with ContentNotFoundError.
C6_UnknownIdNotFound ==
  \A p \in Workers :
    ( /\ w[p].op = "start"
      /\ w[p].pc = "done"
      /\ w[p].chat_type = "private"
      /\ w[p].args # << >>
      /\ WellFormed(w[p].args[1])
      /\ w[p].args[1] \notin IssuedIds )
    => ( /\ w[p].exc = "ContentNotFoundError"
         /\ w[p].reply = "not_found" )

C6_Witness ==
  \E p \in Workers :
    /\ w[p].op = "start"
    /\ w[p].pc = "done"
    /\ w[p].args = << Rep("A", MinIdLen) >>
    /\ w[p].reply = "not_found"
    /\ Parsable(file)
    /\ DOMAIN file.data # {}

\* C7: a request that finds the store file unparsable ends as it would on an
\* empty mapping (a message with its link, a /start with
\* ContentNotFoundError), and then the backup file holds exactly the
\* content that was found.
C7_QuarantineAndReset ==
  \A p \in Workers :
    ( /\ w[p].pc = "done"
      /\ w[p].touched
      /\ w[p].found.kind \notin {"missing", "json"} )
    => ( /\ IF w[p].op = "message" THEN w[p].reply = "link"
            ELSE w[p].exc = "ContentNotFoundError"
         /\ backup = w[p].found )

\* C8: a message handler replies with the link only when save_content
\* returned for its id and message; when the handler ended with an exception
\* it sent no link and the file does not hold its record.
C8_LinkOnlyAfterPut ==
  \A p \in Workers :
    w[p].op = "message" =>
      /\ w[p].reply = "link" =>
            \E r \in issued : /\ r.id = w[p].content_id
                               /\ r.chat_id = w[p].chat_id
                               /\ r.message_id = w[p].message_id
      /\ (w[p].pc = "done" /\ w[p].exc # "none") =>
            (w[p].reply # "link" /\ ~ Holds(p))

C8_Witness ==
  \E p \in Workers :
    /\ w[p].op = "message"
    /\ w[p].pc = "done"
    /\ w[p].exc = "StorageError"
    /\ w[p].reply = "save_failed"
    /\ w[p].data # EmptyMap

\* C9: get_content raises ContentNotFoundError exactly when the file parses
\* and the id is absent, and raises StorageError whenever the file is
\* missing or does not parse.
C9_GetFailureKinds ==
  [][ \A p \in Workers :
        (w[p].pc = "get" /\ w'[p].pc \in {"copy", "done"}) =>
          /\ (w'[p].exc = "ContentNotFoundError") <=>
                (Parsable(file) /\ w[p].content_id \notin DOMAIN file.data)
          /\ ~ Parsable(file) => w'[p].exc = "StorageError" ]_vars

\* C10: every key of the persisted mapping, and every identifier a message
\* handler generated, is accepted by is_valid_content_id.
C10_KeysValid ==
  /\ \A k \in DOMAIN file.data : is_valid_content_id(k)
  /\ \A p \in Workers :
       (w[p].op = "message" /\ w[p].content_id # << >>) =>
         is_valid_content_id(w[p].content_id)

C10_Witness ==
  /\ Parsable(file)
  /\ \E k \in DOMAIN file.data : "_" \in Range(k) /\ "-" \in Range(k)

\* C11: is_valid_content_id accepts a candidate exactly when it has at least
\* 8 characters, all of them in [A-Za-z0-9_-].  The verdict on the argument of
\* a /start in a private chat shows in where the handler goes: the
\* invalid-format reply when it rejects, the store when it accepts.
C11_ValidatorIsTheGrammar ==
  \A p \in Workers :
    ( /\ w[p].op = "start"
      /\ w[p].chat_type = "private"
      /\ w[p].args # << >> )
    => ( (w[p].reply # "invalid_format") <=> WellFormed(w[p].args[1]) )

\* C12: identifier uniqueness.  No two message handlers whose save_content
\* returned were given the same id, and no save_content writes its record
\* under a key the mapping it read already holds.
C12_IdsUnique ==
  /\ \A r1, r2 \in issued : r1.id = r2.id => r1 = r2
  /\ \A p \in Workers :
       (w[p].op = "message" /\ w[p].pc = "save_open" /\ Parsable(file)) =>
         w[p].content_id \notin DOMAIN file.data

\* C13: lazy initialisation.  When ContentStore() found no store file, then
\* once it is constructed the file holds the empty mapping, and the request
\* it was constructed for does not end with StorageError: a message ends with
\* its link, a /start with ContentNotFoundError.
C13_LazyInit ==
  \A p \in Workers :
    w[p].opened = "FileNotFoundError" =>
      /\ w[p].pc \in {"save_read", "get"} => file = Json(EmptyMap)
      /\ w[p].pc = "done" =>
           /\ w[p].exc # "StorageError"
           /\ IF w[p].op = "message" THEN w[p].reply = "link"
              ELSE w[p].exc = "ContentNotFoundError"

C13_Witness ==
  \E p \in Workers :
    /\ w[p].opened = "FileNotFoundError"
    /\ w[p].op = "start"
    /\ w[p].pc = "done"
    /\ w[p].exc = "ContentNotFoundError"
    /\ file = Json(EmptyMap)

\* C14: save_content changes only the entry at its id.  The mapping it is
\* about to write holds every record the file holds under another key,
\* unchanged, and once it has returned the file holds exactly that mapping
\* (handlers run one at a time).
C14_PutFrame ==
  \A p \in Workers :
    /\ w[p].pc = "save_open" =>
         /\ Parsable(file)
         /\ DOMAIN w[p].data = DOMAIN file.data \cup {w[p].content_id}
         /\ \A k \in DOMAIN file.data \ {w[p].content_id} :
              w[p].data[k] = file.data[k]
    /\ w[p].pc = "reply_link" => file = Json(w[p].data)

C14_Witness ==
  \E p \in Workers :
    /\ w[p].op = "message"
    /\ w[p].pc = "reply_link"
    /\ Parsable(file)
    /\ \E k \in DOMAIN file.data :
         /\ k # w[p].content_id
         /\ file.data[k].message_id # w[p].message_id

\* C15: resolve is read-only on a healthy store.  Every step taken while a
\* /start handler runs and the store file parses, from the arrival of the
\* command to the handler's return, leaves the store file and the backup
\* file as they are.
C15_ResolveReadOnly ==
  [][ \A p \in Workers :
        ( /\ w[p].op = "start" \/ w'[p].op = "start"
          /\ Parsable(file) )
        => (file' = file /\ backup' = backup) ]_vars

C15_Witness ==
  \E p \in Workers :
    /\ w[p].op = "start"
    /\ w[p].pc = "done"
    /\ w[p].opened = "ok"
    /\ w[p].reply \in {"copied", "not_found"}
    /\ Parsable(file)
    /\ DOMAIN file.data # {}

\* C16: a message is copied only by a /start handler whose chat is no group,
\* supergroup or channel, whose argument is_valid_content_id accepts and
\* whose id the store holds; the copy is taken from the stored chat_id and
\* message_id and sent to the requesting chat.  A /start from a group,
\* supergroup or channel, or one without an argument, ends without a
\* ContentStore being constructed.
C16_DeliveryGuarded ==
  \A p \in Workers :
    /\ w[p].copy # << >> =>
         /\ w[p].op = "start"
         /\ w[p].chat_type \notin {"group", "supergroup", "channel"}
         /\ w[p].args # << >>
         /\ is_valid_content_id(w[p].args[1])
         /\ Parsable(file)
         /\ w[p].args[1] \in DOMAIN file.data
         /\ w[p].copy[1] =
              [chat_id |-> w[p].chat_id,
               from_chat_id |-> file.data[w[p].args[1]].chat_id,
               message_id |-> file.data[w[p].args[1]].message_id]
    /\ ( /\ w[p].op = "start"
         /\ \/ w[p].chat_type \in {"group", "supergroup", "channel"}
            \/ w[p].args = << >> )
       => ( /\ w[p].pc = "done"
            /\ ~ w[p].touched
            /\ w[p].copy = << >> )

C16_Witness ==
  \E p \in Workers :
    /\ w[p].pc = "done"
    /\ w[p].reply = "copied"
    /\ w[p].copy # << >>
    /\ w[p].copy[1].chat_id # w[p].copy[1].from_chat_id
    /\ w[p].copy[1].message_id = MaxMsgs

\* C17: a message from a chat other than PRIVATE_CHANNEL_ID is ignored.  Its
\* handler ends at once with no id generated, no ContentStore constructed and
\* no reply, and for as long as it is there the store file and the backup
\* file stay as they are.
C17_OtherChatIgnored ==
  [][ \A p \in Workers :
        (w'[p].op = "message" /\ w'[p].chat_id # PRIVATE_CHANNEL_ID) =>
          /\ w'[p].pc = "done"
          /\ w'[p].content_id = << >>
          /\ ~ w'[p].touched
          /\ w'[p].reply = "none"
          /\ file' = file
          /\ backup' = backup ]_vars

C17_Witness ==
  \E p \in Workers :
    /\ w[p].op = "message"
    /\ w[p].chat_id # PRIVATE_CHANNEL_ID
    /\ w[p].pc = "done"
    /\ w[p].reply = "none"
    /\ Parsable(file)
    /\ DOMAIN file.data # {}

====
